---- MODULE Spec2Model ----
(***************************************************************************)
(* Control and data-provenance model of the active-set selection runs of   *)
(* src/src/gpu_active_set_selector.cpp: GpuActiveSetSelector::SelectChol    *)
(* (incremental and full Cholesky mode) and GpuActiveSetSelector::SelectCG. *)
(*                                                                         *)
(* Floating-point buffers are modelled by their provenance: which routine  *)
(* wrote them last and for how many active points.  An allocation that is  *)
(* never written holds an indeterminate value, drawn from Garbage.         *)
(* The device helpers activate_max_subset_buffers,                          *)
(* update_active_set_buffers, find_best_active_set_candidate and the        *)
(* construct_* routines are not part of the source file; they are modelled *)
(* from their description in the design document.                          *)
(***************************************************************************)
EXTENDS Integers, Sequences, FiniteSets, TLC

\* ---------------------------------------------------------------- bounds
MaxPoints == 4

MaxSetSize == 4

MaxBatch == 2

\* Largest pool of a pair of runs.
MaxPairPoints == 3

\* Two distinct contents that memory nobody wrote may hold.
Garbage == {"g0", "g1"}

VARIABLES
  alg,            \* "chol" (SelectChol) or "cg" (SelectCG)
  incremental,    \* SelectChol's incremental argument
  numPoints,      \* pool size N
  maxSizeArg,     \* maxSize as passed by the caller
  maxSize,        \* the maxSize parameter, clamped in place by the routine
  batchSize,      \* SelectChol's batchSize argument
  startIndex,     \* SelectChol's startIndex argument (-1: random seed)
  pc,             \* position in the routine
  k,              \* loop counter of the selection loop
  i,              \* loop counter of a prediction pass
  firstIndex,     \* the seed index
  nextIndex,      \* host copy of d_next_index (SelectChol)
  numLeft,        \* undetermined points counted by SelectCG
  beta,           \* the factor m of beta = 2 ln(N pi^2 m^2 / (6 tolerance))
  indices,        \* std::vector<int> indices (SelectChol)
  num_active,     \* activeSetBuffers.num_active
  max_active,     \* activeSetBuffers.max_active
  active_inputs,  \* pool indices whose rows were appended to the active set
  d_next_index,   \* maxSubBuffers.d_next_index
  active,         \* maxSubBuffers.active, as the set of flagged indices
  upper,          \* classificationBuffers.upper
  lower,          \* classificationBuffers.lower
  h_active,       \* host snapshots of the three flag arrays (SelectCG)
  h_upper,
  h_lower,
  d_alpha,        \* provenance of the solution vector
  d_L,            \* provenance of each column of the Cholesky factor
  d_mu,           \* provenance of each predicted mean
  d_sigma,        \* provenance of each predicted variance reduction
  iters,          \* number of loop bodies entered so far
  runNo,          \* 0: a single run; 1, 2: first and second run of a pair
  prev,           \* result of the first run of a pair
  scoreLog,       \* scoring calls of the first run of a pair
  batches,        \* <<index, size>> of the prediction calls of the current pass
  gen,            \* value model: the factor the kernel values are drawn from
  K,              \* value model: active_kernel_matrix, K[r][c]
  targets,        \* value model: active_targets
  nAct,           \* value model: num_active
  L_inc,          \* value model: d_L maintained by UpdateChol
  L_full,         \* value model: d_L maintained by SolveLinearSystemChol
  alpha_inc,      \* value model: d_alpha after UpdateChol
  alpha_full,     \* value model: d_alpha after SolveLinearSystemChol
  pred,           \* value model: last mu and sigma predicted from both
  cg_pc,          \* SolveLinearSystemCG: position
  cg_numActive,   \* SolveLinearSystemCG: numActive
  cg_maxActive,   \* SolveLinearSystemCG: maxActive
  cg_k,           \* SolveLinearSystemCG: its iteration counter k
  cg_delta,       \* SolveLinearSystemCG: whether delta_1 > tolerance
  cg_alpha,       \* SolveLinearSystemCG: updates added to the zeroed d_alpha
  grid_pc,        \* SelectFromGrid: position
  width,          \* SelectFromGrid: the grid dimensions passed in
  height,
  depth,
  csvOpens,       \* the file csvFilename: whether it can be opened,
  csvLines,       \*   how many lines it holds,
  csvNewline,     \*   whether its last line ends with a newline
  rd_j,           \* ReadCsv: j
  rd_k,           \* ReadCsv: k
  rd_got,         \* ReadCsv: lines taken from csvFile so far
  rd_eof,         \* ReadCsv: csvFile.eof()
  heap,           \* SelectFromGrid: its new[] buffers not yet deleted
  grid_ret,       \* SelectFromGrid: "none" until it returns, then its result
  selectCalls     \* SelectFromGrid: calls of SelectChol made

vars == << alg, incremental, numPoints, maxSizeArg, maxSize, batchSize,
           startIndex, pc, k, i, firstIndex, nextIndex, numLeft, beta,
           indices, num_active, max_active, active_inputs, d_next_index,
           active, upper, lower, h_active, h_upper, h_lower, d_alpha, d_L,
           d_mu, d_sigma, iters, runNo, prev, scoreLog, batches,
           gen, K, targets, nAct, L_inc, L_full, alpha_inc, alpha_full,
           pred, cg_pc, cg_numActive, cg_maxActive, cg_k, cg_delta, cg_alpha,
           grid_pc, width, height, depth, csvOpens, csvLines, csvNewline,
           rd_j, rd_k, rd_got, rd_eof, heap, grid_ret, selectCalls >>

params == << alg, numPoints, maxSizeArg, batchSize, startIndex >>

pool == << active, upper, lower >>

hflags == << h_active, h_upper, h_lower >>

pair == << runNo, prev, scoreLog >>

\* The state of the value model of the two factorizations.
fvars == << gen, K, targets, nAct, L_inc, L_full, alpha_inc, alpha_full,
           pred >>

\* The state of one call of SolveLinearSystemCG.
cgvars == << cg_pc, cg_numActive, cg_maxActive, cg_k, cg_delta, cg_alpha >>

\* The state of one call of SelectFromGrid around its selection run.
gvars == << grid_pc, width, height, depth, csvOpens, csvLines, csvNewline,
           rd_j, rd_k, rd_got, rd_eof, heap, grid_ret, selectCalls >>

aux == << fvars, cgvars, gvars >>

\* The variables of a selection run.
sel == << alg, incremental, numPoints, maxSizeArg, maxSize, batchSize,
          startIndex, pc, k, i, firstIndex, nextIndex, numLeft, beta,
          indices, num_active, max_active, active_inputs, d_next_index,
          active, upper, lower, h_active, h_upper, h_lower, d_alpha, d_L,
          d_mu, d_sigma, iters, runNo, prev, scoreLog, batches >>

Pts == 0 .. (numPoints - 1)

Min(a, b) == IF a < b THEN a ELSE b

\* ------------------------------------------------ provenance of buffers
Unset == [st |-> "unset", v |-> 0, n |-> 0]

Uninit(g) == [st |-> "uninit", v |-> g]

Solved(n) == [st |-> "solved", v |-> n]

\* The factor that the leading n columns of L hold: the Cholesky factor of
\* the active kernel matrix when every one of them was computed by the
\* initial scalar factor, a rank-1 update or a full factorization.
FactorValue(L, n) ==
  IF n <= Len(L) /\ \A c \in 1 .. n : L[c] \in {"init", "rank1", "potrf"}
  THEN "chol" ELSE "stale"

MuValue(alpha, n) == [st |-> alpha.st, v |-> alpha.v, n |-> n]

SigmaValue(f, n) == [st |-> f, v |-> 0, n |-> n]

WriteRange(buf, lo, len, val) ==
  [j \in (DOMAIN buf) \cup (lo .. (lo + len - 1)) |->
     IF j \in lo .. (lo + len - 1) THEN val ELSE buf[j]]

\* --------------------------------------------- pieces of the host code
\* if (maxSize > numPoints) maxSize = numPoints;
ClampMaxSize(ms, np) == IF ms > np THEN np ELSE ms

\* int firstIndex = rand() % numPoints; if (startIndex != -1) firstIndex = startIndex;
FirstIndex(start, r) == IF start # -1 THEN start ELSE r

\* The loop condition without its bound on k.
CholLoopCondUnbounded(kk, ms, ni) == ni # -1

\* The loop condition with the bound off by one.
CholLoopCondOffByOne(kk, ms, ni) == kk <= ms /\ ni # -1

\* The loop condition without its test of the sentinel.
CholLoopCondNoSentinel(kk, ms, ni) == kk < ms

\* for (k = 1; k < maxSize && nextIndex != -1; k++)
CholLoopCond(kk, ms, ni) == kk < ms /\ ni # -1

\* The loop condition without its test of numLeft.
CGLoopCondNoNumLeft(kk, ms, nl) == kk < ms

\* for (unsigned int k = 1; k < maxSize && numLeft > 0; k++)
CGLoopCond(kk, ms, nl) == kk < ms /\ nl > 0

\* Variant of the admission test that passes over point 0.
AdmitCondPositive(ni) == ni > 0

\* if (nextIndex >= 0)
AdmitCond(ni) == ni >= 0

\* A pass that stops one index short of the pool.
PassCondShort(ii, np) == ii < np - 1

\* for (int i = 0; i < numPoints; ...): the condition of a prediction pass
PassCond(ii, np) == ii < np

\* A batch that is never clipped.
BatchLenUnclipped(bs, np, ii) == bs

\* std::min(batchSize, numPoints - i)
BatchLen(bs, np, ii) == Min(bs, np - ii)

\* A test of the snapshot that leaves out the upper flag.
HostUndeterminedNoUpper(ha, hu, hl, j) == j \notin ha /\ j \notin hl

\* if (!h_active[i] && !h_upper[i] && !h_lower[i])
HostUndetermined(ha, hu, hl, j) == j \notin ha /\ j \notin hu /\ j \notin hl

\* A schedule that shrinks with k.
BetaFactorShrinking(kk) == 8 - kk

\* beta = 2 * log(numPoints * pow(M_PI,2) * pow((k+1),2) / (6 * tolerance)),
\* kept as the factor k+1; the value before the loop is the one for k = 0.
BetaFactor(kk) == kk + 1

\* The argument of the logarithm for the factor m, without its constant
\* positive factor pi^2 / (6 tolerance): numPoints * pow(m, 2).
BetaArg(np, m) == np * m * m

\* cudaMalloc(d_L); cudaMemset(d_L, 0); d_L[0] = compute_sqrt_var(.., 0, ..)
InitialFactor(ms) == [c \in 1 .. ms |-> IF c = 1 THEN "init" ELSE "zero"]

\* Variant with offset = (numActive-2) * maxActive: the column before.
UpdateCholFactorShifted(L, n) ==
  [c \in DOMAIN L |-> IF c = n - 1 THEN "rank1" ELSE L[c]]

\* UpdateChol: column numActive-1 of L is solved from the previous factor
\* and its diagonal entry set; alpha is then solved against the new factor.
UpdateCholFactor(L, n) == [c \in DOMAIN L |-> IF c = n THEN "rank1" ELSE L[c]]

\* SolveLinearSystemChol: the whole kernel matrix is copied over L and its
\* leading numActive block factorized in place.
FullCholFactor(L, n) == [c \in DOMAIN L |-> IF c <= n THEN "potrf" ELSE "kernel"]

\* alpha after two triangular solves against the leading n columns of L
SolvedAlpha(L, n) ==
  IF FactorValue(L, n) = "chol" THEN Solved(n) ELSE [st |-> "stale", v |-> n]

\* ------------------------ device helpers, from the design document
\* construct_active_set_buffers(&buffers, dimIn, dimTarget, maxSize)
construct_active_set_buffers(ms) ==
  /\ num_active' = 0
  /\ max_active' = ms
  /\ active_inputs' = << >>

\* construct_max_subset_buffers / construct_classification_buffers
construct_pool_buffers ==
  /\ active' = {}
  /\ upper' = {}
  /\ lower' = {}

\* activate_max_subset_buffers(&maxSubBuffers, index)
activate_max_subset_buffers(index) ==
  /\ active' = active \cup {index}
  /\ d_next_index' = index

\* update_active_set_buffers: appends the point that d_next_index names
\* (idx, its value at the call) to the active set - row and column of the
\* kernel matrix, target - and counts it.
update_active_set_buffers(idx) ==
  /\ active_inputs' = Append(active_inputs, idx)
  /\ num_active' = num_active + 1

\* Points that scoring looks at: neither active nor classified.
Undetermined == (Pts \ active) \ (upper \cup lower)

\* Results find_best_active_set_candidate can produce on the undetermined
\* points und: some become upper, some lower, and the most ambiguous of the
\* rest is chosen; -1 when nothing is left to choose.
ScoringOutcomes(und) ==
  UNION { UNION { { [up |-> U, lo |-> Lw, next |-> nx] :
                       nx \in (IF und \ (U \cup Lw) = {} THEN {-1}
                               ELSE und \ (U \cup Lw)) }
                   : Lw \in SUBSET (und \ U) }
          : U \in SUBSET und }

\* What a scoring call reads.
ScoringInput ==
  [mu |-> d_mu, sigma |-> d_sigma, act |-> active, up |-> upper,
   lo |-> lower, beta |-> beta, rows |-> active_inputs]

\* Scoring is a function of what it reads: in the second run of a pair a
\* call that reads what a call of the first run read returns what it returned.
Deterministic(o) ==
  runNo = 2 =>
    \A e \in 1 .. Len(scoreLog) :
      scoreLog[e].in = ScoringInput => o = scoreLog[e].out

\* find_best_active_set_candidate(&maxSubBuffers, &classificationBuffers,
\*                                d_mu, d_sigma, level, beta, accuracy, hypers)
find_best_active_set_candidate(o) ==
  /\ o \in ScoringOutcomes(Undetermined)
  /\ Deterministic(o)
  /\ upper' = upper \cup o.up
  /\ lower' = lower \cup o.lo
  /\ active' = IF o.next = -1 THEN active ELSE active \cup {o.next}
  /\ d_next_index' = o.next
  /\ scoreLog' = IF runNo = 1
                 THEN Append(scoreLog, [in |-> ScoringInput, out |-> o])
                 ELSE scoreLog

\* ----------------------------------------------------------------- Init
RunStart ==
  /\ maxSize = maxSizeArg
  /\ pc = "start"
  /\ k = 0
  /\ i = 0
  /\ firstIndex = 0
  /\ nextIndex = 0
  /\ numLeft = 0
  /\ beta = 0
  /\ indices = << >>
  /\ num_active = 0
  /\ max_active = 0
  /\ active_inputs = << >>
  /\ d_next_index = 0
  /\ active = {}
  /\ upper = {}
  /\ lower = {}
  /\ h_active = {}
  /\ h_upper = {}
  /\ h_lower = {}
  /\ d_alpha = [st |-> "unalloc", v |-> 0]
  /\ d_L = << >>
  /\ d_mu = << >>
  /\ d_sigma = << >>
  /\ iters = 0
  /\ batches = << >>

\* The value model is not running.
FactorIdle ==
  /\ gen = << >> /\ K = << >> /\ targets = << >> /\ nAct = 0
  /\ L_inc = << >> /\ L_full = << >>
  /\ alpha_inc = << >> /\ alpha_full = << >>
  /\ pred = << >>

\* SelectFromGrid is not running.
GridIdle ==
  /\ grid_pc = "idle"
  /\ width = 1 /\ height = 1 /\ depth = 1
  /\ csvOpens = FALSE /\ csvLines = 0 /\ csvNewline = FALSE
  /\ rd_j = 0 /\ rd_k = 0 /\ rd_got = 0 /\ rd_eof = FALSE
  /\ heap = {}
  /\ grid_ret = "none"
  /\ selectCalls = 0

\* The value model, the solver call and SelectFromGrid are not running.
AuxIdle ==
  /\ FactorIdle
  /\ GridIdle
  /\ cg_pc = "idle" /\ cg_numActive = 0 /\ cg_maxActive = 0
  /\ cg_k = 0 /\ cg_delta = FALSE /\ cg_alpha = 0

Init ==
  /\ alg \in {"chol", "cg"}
  /\ incremental \in (IF alg = "chol" THEN BOOLEAN ELSE {FALSE})
  /\ numPoints \in 1 .. MaxPoints
  /\ maxSizeArg \in 1 .. MaxSetSize
  /\ batchSize \in (IF alg = "chol" THEN 1 .. MaxBatch ELSE {1})
  /\ startIndex \in (IF alg = "chol" THEN {-1, 0, numPoints - 1} ELSE {-1})
  /\ runNo = 0
  /\ prev = [indices |-> << >>, num_active |-> 0]
  /\ scoreLog = << >>
  /\ RunStart
  /\ AuxIdle

\* A seeding that copies the index to d_next_index and admits it, without
\* flagging the point active.
SeedWithoutActivate(idx) ==
  /\ d_next_index' = idx
  /\ active' = active
  /\ update_active_set_buffers(idx)

\* A seeding that flags the point active and does not admit it.
SeedWithoutUpdate(idx) ==
  /\ activate_max_subset_buffers(idx)
  /\ UNCHANGED << active_inputs, num_active >>

\* activate_max_subset_buffers(&maxSubBuffers, firstIndex);
\* update_active_set_buffers(&activeSetBuffers, &maxSubBuffers, hypers);
SeedChol(idx) ==
  /\ activate_max_subset_buffers(idx)
  /\ update_active_set_buffers(idx)

\* The same two calls in SelectCG.
SeedCG(idx) ==
  /\ activate_max_subset_buffers(idx)
  /\ update_active_set_buffers(idx)

\* ----------------------------------------------------------- SelectChol
\* Clamp of maxSize, device allocations, initial scalar factor, buffers.
Chol_Setup ==
  /\ alg = "chol" /\ pc = "start"
  /\ maxSize' = ClampMaxSize(maxSize, numPoints)
  /\ \E g \in Garbage : d_alpha' = Uninit(g)
  /\ d_L' = InitialFactor(maxSize')
  /\ d_mu' = [j \in Pts |-> Unset]
  /\ d_sigma' = [j \in Pts |-> Unset]
  /\ construct_active_set_buffers(maxSize')
  /\ construct_pool_buffers
  /\ pc' = "seed"
  /\ UNCHANGED << params, incremental, k, i, firstIndex, nextIndex, numLeft,
                  beta, indices, d_next_index, hflags, iters, pair, batches, aux >>

\* Choice of the first index, its activation and its admission.
Chol_Seed ==
  /\ alg = "chol" /\ pc = "seed"
  /\ \E r \in Pts : firstIndex' = FirstIndex(startIndex, r)
  /\ SeedChol(firstIndex')
  /\ pc' = "locals"
  /\ UNCHANGED << params, incremental, maxSize, k, i, nextIndex, numLeft,
                  beta, indices, max_active, upper, lower, hflags, d_alpha,
                  d_L, d_mu, d_sigma, iters, pair, batches, aux >>

\* beta, level, score, nextIndex = 0, indices.push_back(firstIndex), k = 1.
Chol_InitLocals ==
  /\ alg = "chol" /\ pc = "locals"
  /\ beta' = BetaFactor(0)
  /\ nextIndex' = 0
  /\ indices' = << firstIndex >>
  /\ k' = 1
  /\ pc' = "loop_test"
  /\ UNCHANGED << params, incremental, maxSize, i, firstIndex, numLeft,
                  num_active, max_active, active_inputs, d_next_index, pool,
                  hflags, d_alpha, d_L, d_mu, d_sigma, iters, pair, batches, aux >>

\* The test of the selection loop.
Chol_LoopTest ==
  /\ alg = "chol" /\ pc = "loop_test"
  /\ IF CholLoopCond(k, maxSize, nextIndex)
     THEN /\ pc' = "beta"
          /\ iters' = iters + 1
          /\ i' = i
     ELSE /\ pc' = "final_predict"
          /\ iters' = iters
          /\ i' = 0
  /\ batches' = << >>
  /\ UNCHANGED << params, incremental, maxSize, k, firstIndex, nextIndex,
                  numLeft, beta, indices, num_active, max_active,
                  active_inputs, d_next_index, pool, hflags, d_alpha, d_L,
                  d_mu, d_sigma, pair, aux >>

\* Recomputation of beta at the head of the loop body.
Chol_Beta ==
  /\ alg = "chol" /\ pc = "beta"
  /\ beta' = BetaFactor(k)
  /\ i' = 0
  /\ batches' = << >>
  /\ pc' = "predict"
  /\ UNCHANGED << params, incremental, maxSize, k, firstIndex, nextIndex,
                  numLeft, indices, num_active, max_active, active_inputs,
                  d_next_index, pool, hflags, d_alpha, d_L, d_mu, d_sigma,
                  iters, pair, aux >>

\* GpPredictCholBatch(index, batchSize): mu and sigma of batchSize points
\* from index on, from alpha, L and the kernel vectors to the active points.
\* Only d_kernelVectors and d_gamma, scratch, are written besides.
GpPredictCholBatch(index, len) ==
  /\ d_mu' = WriteRange(d_mu, index, len, MuValue(d_alpha, num_active))
  /\ d_sigma' = WriteRange(d_sigma, index, len,
                           SigmaValue(FactorValue(d_L, num_active), num_active))
  /\ UNCHANGED << num_active, max_active, active_inputs, pool, d_alpha, d_L >>

\* One batch of the prediction pass inside the loop.
Chol_PredictBatch ==
  /\ alg = "chol" /\ pc = "predict"
  /\ PassCond(i, numPoints)
  /\ GpPredictCholBatch(i, BatchLen(batchSize, numPoints, i))
  /\ batches' = Append(batches, << i, BatchLen(batchSize, numPoints, i) >>)
  /\ i' = i + batchSize
  /\ pc' = IF PassCond(i', numPoints) THEN "predict" ELSE "score"
  /\ UNCHANGED << params, incremental, maxSize, k, firstIndex, nextIndex,
                  numLeft, beta, indices, d_next_index, hflags,
                  iters, runNo, prev, scoreLog, aux >>

\* Scoring, read-back of the chosen index, and its record in indices.
Chol_Score ==
  /\ alg = "chol" /\ pc = "score"
  /\ \E o \in ScoringOutcomes(Undetermined) :
       /\ find_best_active_set_candidate(o)
       /\ nextIndex' = o.next
       /\ indices' = Append(indices, o.next)
  /\ pc' = "admit_test"
  /\ UNCHANGED << params, incremental, maxSize, k, i, firstIndex, numLeft,
                  beta, num_active, max_active, active_inputs, hflags,
                  d_alpha, d_L, d_mu, d_sigma, iters, runNo, prev, batches, aux >>

\* if (nextIndex >= 0); with nothing chosen the body ends here and k++.
Chol_AdmitTest ==
  /\ alg = "chol" /\ pc = "admit_test"
  /\ IF AdmitCond(nextIndex)
     THEN pc' = "update" /\ k' = k
     ELSE pc' = "loop_test" /\ k' = k + 1
  /\ UNCHANGED << params, incremental, maxSize, i, firstIndex, nextIndex,
                  numLeft, beta, indices, num_active, max_active,
                  active_inputs, d_next_index, pool, hflags, d_alpha, d_L,
                  d_mu, d_sigma, iters, pair, batches, aux >>

\* Admission of the chosen point.
Chol_Update ==
  /\ alg = "chol" /\ pc = "update"
  /\ update_active_set_buffers(d_next_index)
  /\ pc' = "solve"
  /\ UNCHANGED << params, incremental, maxSize, k, i, firstIndex, nextIndex,
                  numLeft, beta, indices, max_active, d_next_index, pool,
                  hflags, d_alpha, d_L, d_mu, d_sigma, iters, pair, batches, aux >>

\* if (incremental) UpdateChol(..) else SolveLinearSystemChol(..): the
\* factor the chosen strategy leaves in d_L.
NextFactor(inc, L, n) ==
  IF inc THEN UpdateCholFactor(L, n) ELSE FullCholFactor(L, n)

\* The solve for alpha that ends the loop body, then k++.
Chol_Solve ==
  /\ alg = "chol" /\ pc = "solve"
  /\ d_L' = NextFactor(incremental, d_L, num_active)
  /\ d_alpha' = SolvedAlpha(d_L', num_active)
  /\ k' = k + 1
  /\ pc' = "loop_test"
  /\ UNCHANGED << params, incremental, maxSize, i, firstIndex, nextIndex,
                  numLeft, beta, indices, num_active, max_active,
                  active_inputs, d_next_index, pool, hflags, d_mu, d_sigma,
                  iters, pair, batches, aux >>

\* One batch of the prediction pass after the loop.
Chol_FinalPredictBatch ==
  /\ alg = "chol" /\ pc = "final_predict"
  /\ PassCond(i, numPoints)
  /\ GpPredictCholBatch(i, BatchLen(batchSize, numPoints, i))
  /\ batches' = Append(batches, << i, BatchLen(batchSize, numPoints, i) >>)
  /\ i' = i + batchSize
  /\ pc' = IF PassCond(i', numPoints) THEN "final_predict" ELSE "report"
  /\ UNCHANGED << params, incremental, maxSize, k, firstIndex, nextIndex,
                  numLeft, beta, indices, d_next_index, hflags,
                  iters, runNo, prev, scoreLog, aux >>

\* EvaluateErrors and the four WriteCsv calls.
Chol_Report ==
  /\ alg = "chol" /\ pc = "report"
  /\ pc' = "release"
  /\ UNCHANGED << params, incremental, maxSize, k, i, firstIndex, nextIndex,
                  numLeft, beta, indices, num_active, max_active,
                  active_inputs, d_next_index, pool, hflags, d_alpha, d_L,
                  d_mu, d_sigma, iters, pair, batches, aux >>

\* cudaFree of the device vectors, free_* of the buffers, return true.
Chol_Release ==
  /\ alg = "chol" /\ pc = "release"
  /\ pc' = "done"
  /\ UNCHANGED << params, incremental, maxSize, k, i, firstIndex, nextIndex,
                  numLeft, beta, indices, num_active, max_active,
                  active_inputs, d_next_index, pool, hflags, d_alpha, d_L,
                  d_mu, d_sigma, iters, pair, batches, aux >>

CholNext ==
  \/ Chol_Setup
  \/ Chol_Seed
  \/ Chol_InitLocals
  \/ Chol_LoopTest
  \/ Chol_Beta
  \/ Chol_PredictBatch
  \/ Chol_Score
  \/ Chol_AdmitTest
  \/ Chol_Update
  \/ Chol_Solve
  \/ Chol_FinalPredictBatch
  \/ Chol_Report
  \/ Chol_Release

\* ------------------------------------------------------------- SelectCG
\* Clamp of maxSize, device allocations, buffers.
CG_Setup ==
  /\ alg = "cg" /\ pc = "start"
  /\ maxSize' = ClampMaxSize(maxSize, numPoints)
  /\ \E g \in Garbage : d_alpha' = Uninit(g)
  /\ d_mu' = [j \in Pts |-> Unset]
  /\ d_sigma' = [j \in Pts |-> Unset]
  /\ construct_active_set_buffers(maxSize')
  /\ construct_pool_buffers
  /\ pc' = "seed"
  /\ UNCHANGED << params, incremental, k, i, firstIndex, nextIndex, numLeft,
                  beta, indices, d_next_index, hflags, d_L, iters, pair, batches, aux >>

\* int firstIndex = rand() % numPoints, its activation and its admission.
CG_Seed ==
  /\ alg = "cg" /\ pc = "seed"
  /\ \E r \in Pts : firstIndex' = r
  /\ SeedCG(firstIndex')
  /\ pc' = "solve0"
  /\ UNCHANGED << params, incremental, maxSize, k, i, nextIndex, numLeft,
                  beta, indices, max_active, upper, lower, hflags, d_alpha,
                  d_L, d_mu, d_sigma, iters, pair, batches, aux >>

\* SolveLinearSystemCG on the active targets: alpha is zeroed and iterated
\* on the active kernel matrix.
SolveLinearSystemCG(n) == Solved(n)

\* The solve for the initial alpha.
CG_InitialSolve ==
  /\ alg = "cg" /\ pc = "solve0"
  /\ d_alpha' = SolveLinearSystemCG(num_active)
  /\ pc' = "locals"
  /\ UNCHANGED << params, incremental, maxSize, k, i, firstIndex, nextIndex,
                  numLeft, beta, indices, num_active, max_active,
                  active_inputs, d_next_index, pool, hflags, d_L, d_mu,
                  d_sigma, iters, pair, batches, aux >>

\* beta, level, numLeft = numPoints - 1, k = 1.
CG_InitLocals ==
  /\ alg = "cg" /\ pc = "locals"
  /\ beta' = BetaFactor(0)
  /\ numLeft' = numPoints - 1
  /\ k' = 1
  /\ pc' = "loop_test"
  /\ UNCHANGED << params, incremental, maxSize, i, firstIndex, nextIndex,
                  indices, num_active, max_active, active_inputs,
                  d_next_index, pool, hflags, d_alpha, d_L, d_mu, d_sigma,
                  iters, pair, batches, aux >>

\* The test of the selection loop.
CG_LoopTest ==
  /\ alg = "cg" /\ pc = "loop_test"
  /\ IF CGLoopCond(k, maxSize, numLeft)
     THEN /\ pc' = "snapshot"
          /\ iters' = iters + 1
     ELSE /\ pc' = "final_predict"
          /\ iters' = iters
  /\ i' = 0
  /\ batches' = << >>
  /\ UNCHANGED << params, incremental, maxSize, k, firstIndex, nextIndex,
                  numLeft, beta, indices, num_active, max_active,
                  active_inputs, d_next_index, pool, hflags, d_alpha, d_L,
                  d_mu, d_sigma, pair, aux >>

\* Copy of the three flag arrays to the host; numLeft = 0.
CG_Snapshot ==
  /\ alg = "cg" /\ pc = "snapshot"
  /\ h_active' = active
  /\ h_upper' = upper
  /\ h_lower' = lower
  /\ numLeft' = 0
  /\ i' = 0
  /\ batches' = << >>
  /\ pc' = "predict"
  /\ UNCHANGED << params, incremental, maxSize, k, firstIndex, nextIndex,
                  beta, indices, num_active, max_active, active_inputs,
                  d_next_index, pool, d_alpha, d_L, d_mu, d_sigma, iters,
                  pair, aux >>

\* A prediction whose solve on the kernel vector is handed d_alpha, not
\* d_gamma, as the vector to fill.
GpPredictCGIntoAlpha(index) ==
  /\ d_mu' = WriteRange(d_mu, index, 1, MuValue(d_alpha, num_active))
  /\ d_sigma' = WriteRange(d_sigma, index, 1, SigmaValue("cg", num_active))
  /\ d_alpha' = [st |-> "stale", v |-> num_active]
  /\ UNCHANGED << num_active, max_active, active_inputs, pool, d_L >>

\* GpPredictCG(index): mu from alpha, sigma from a CG solve on the kernel
\* vector of the point.
\* The solve writes d_gamma, d_p, d_q, d_r and the two scalars, scratch.
GpPredictCG(index) ==
  /\ d_mu' = WriteRange(d_mu, index, 1, MuValue(d_alpha, num_active))
  /\ d_sigma' = WriteRange(d_sigma, index, 1, SigmaValue("cg", num_active))
  /\ UNCHANGED << num_active, max_active, active_inputs, pool, d_alpha, d_L >>

\* One step of the counting and prediction pass inside the loop.
CG_PredictPoint ==
  /\ alg = "cg" /\ pc = "predict"
  /\ PassCond(i, numPoints)
  /\ IF HostUndetermined(h_active, h_upper, h_lower, i)
     THEN /\ numLeft' = numLeft + 1
          /\ GpPredictCG(i)
          /\ batches' = Append(batches, << i, 1 >>)
     ELSE UNCHANGED << numLeft, d_mu, d_sigma, batches, num_active,
                       max_active, active_inputs, pool, d_alpha, d_L >>
  /\ i' = i + 1
  /\ pc' = IF PassCond(i', numPoints) THEN "predict" ELSE "numleft_test"
  /\ UNCHANGED << params, incremental, maxSize, k, firstIndex, nextIndex,
                  beta, indices, d_next_index, hflags, iters, pair, aux >>

\* if (numLeft == 0) continue;
CG_NumLeftTest ==
  /\ alg = "cg" /\ pc = "numleft_test"
  /\ IF numLeft = 0
     THEN pc' = "loop_test" /\ k' = k + 1
     ELSE pc' = "score" /\ k' = k
  /\ UNCHANGED << params, incremental, maxSize, i, firstIndex, nextIndex,
                  numLeft, beta, indices, num_active, max_active,
                  active_inputs, d_next_index, pool, hflags, d_alpha, d_L,
                  d_mu, d_sigma, iters, pair, batches, aux >>

\* Scoring; the chosen index stays on the device.
CG_Score ==
  /\ alg = "cg" /\ pc = "score"
  /\ \E o \in ScoringOutcomes(Undetermined) : find_best_active_set_candidate(o)
  /\ pc' = "update"
  /\ UNCHANGED << params, incremental, maxSize, k, i, firstIndex, nextIndex,
                  numLeft, beta, indices, num_active, max_active,
                  active_inputs, hflags, d_alpha, d_L, d_mu, d_sigma, iters,
                  runNo, prev, batches, aux >>

\* Admission of whatever d_next_index names.
CG_Update ==
  /\ alg = "cg" /\ pc = "update"
  /\ update_active_set_buffers(d_next_index)
  /\ pc' = "beta"
  /\ UNCHANGED << params, incremental, maxSize, k, i, firstIndex, nextIndex,
                  numLeft, beta, indices, max_active, d_next_index, pool,
                  hflags, d_alpha, d_L, d_mu, d_sigma, iters, pair, batches, aux >>

\* Recomputation of beta after scoring and admission.
CG_Beta ==
  /\ alg = "cg" /\ pc = "beta"
  /\ beta' = BetaFactor(k)
  /\ pc' = "solve"
  /\ UNCHANGED << params, incremental, maxSize, k, i, firstIndex, nextIndex,
                  numLeft, indices, num_active, max_active, active_inputs,
                  d_next_index, pool, hflags, d_alpha, d_L, d_mu, d_sigma,
                  iters, pair, batches, aux >>

\* The solve for the next alpha, then k++.
CG_Solve ==
  /\ alg = "cg" /\ pc = "solve"
  /\ d_alpha' = SolveLinearSystemCG(num_active)
  /\ k' = k + 1
  /\ pc' = "loop_test"
  /\ UNCHANGED << params, incremental, maxSize, i, firstIndex, nextIndex,
                  numLeft, beta, indices, num_active, max_active,
                  active_inputs, d_next_index, pool, hflags, d_L, d_mu,
                  d_sigma, iters, pair, batches, aux >>

\* One point of the prediction pass after the loop.
CG_FinalPredictPoint ==
  /\ alg = "cg" /\ pc = "final_predict"
  /\ PassCond(i, numPoints)
  /\ GpPredictCG(i)
  /\ batches' = Append(batches, << i, 1 >>)
  /\ i' = i + 1
  /\ pc' = IF PassCond(i', numPoints) THEN "final_predict" ELSE "report"
  /\ UNCHANGED << params, incremental, maxSize, k, firstIndex, nextIndex,
                  numLeft, beta, indices, d_next_index, hflags, iters, pair,
                  aux >>

\* EvaluateErrors and the three WriteCsv calls.
CG_Report ==
  /\ alg = "cg" /\ pc = "report"
  /\ pc' = "release"
  /\ UNCHANGED << params, incremental, maxSize, k, i, firstIndex, nextIndex,
                  numLeft, beta, indices, num_active, max_active,
                  active_inputs, d_next_index, pool, hflags, d_alpha, d_L,
                  d_mu, d_sigma, iters, pair, batches, aux >>

\* cudaFree of the device vectors, free_* of the buffers, return true.
CG_Release ==
  /\ alg = "cg" /\ pc = "release"
  /\ pc' = "done"
  /\ UNCHANGED << params, incremental, maxSize, k, i, firstIndex, nextIndex,
                  numLeft, beta, indices, num_active, max_active,
                  active_inputs, d_next_index, pool, hflags, d_alpha, d_L,
                  d_mu, d_sigma, iters, pair, batches, aux >>

CGNext ==
  \/ CG_Setup
  \/ CG_Seed
  \/ CG_InitialSolve
  \/ CG_InitLocals
  \/ CG_LoopTest
  \/ CG_Snapshot
  \/ CG_PredictPoint
  \/ CG_NumLeftTest
  \/ CG_Score
  \/ CG_Update
  \/ CG_Beta
  \/ CG_Solve
  \/ CG_FinalPredictPoint
  \/ CG_Report
  \/ CG_Release

\* ------------------------------------------------------- specifications
Next == CholNext \/ CGNext

Spec == Init /\ [][Next]_vars

\* Two SelectChol runs on the same pool with the same arguments, the first
\* with incremental = true and the second with incremental = false.
PairInit ==
  /\ alg = "chol"
  /\ incremental = TRUE
  /\ numPoints \in 1 .. MaxPairPoints
  /\ maxSizeArg \in 1 .. MaxSetSize
  /\ batchSize \in 1 .. MaxBatch
  /\ startIndex \in {0, numPoints - 1}
  /\ runNo = 1
  /\ prev = [indices |-> << >>, num_active |-> 0]
  /\ scoreLog = << >>
  /\ RunStart
  /\ AuxIdle

\* The first run has returned; its result is kept and the second run starts.
Rerun ==
  /\ pc = "done" /\ runNo = 1
  /\ runNo' = 2
  /\ incremental' = FALSE
  /\ prev' = [indices |-> active_inputs, num_active |-> num_active]
  /\ maxSize' = maxSizeArg
  /\ pc' = "start"
  /\ k' = 0 /\ i' = 0 /\ firstIndex' = 0 /\ nextIndex' = 0 /\ numLeft' = 0
  /\ beta' = 0 /\ indices' = << >> /\ num_active' = 0 /\ max_active' = 0
  /\ active_inputs' = << >> /\ d_next_index' = 0
  /\ active' = {} /\ upper' = {} /\ lower' = {}
  /\ d_alpha' = [st |-> "unalloc", v |-> 0]
  /\ d_L' = << >> /\ d_mu' = << >> /\ d_sigma' = << >>
  /\ iters' = 0
  /\ batches' = << >>
  /\ UNCHANGED << params, hflags, scoreLog, aux >>

PairNext == CholNext \/ Rerun

PairSpec == PairInit /\ [][PairNext]_vars

\* The seeding of SelectChol for every startIndex a caller can pass, valid
\* or not; the run is followed up to the loop (what the device code does
\* with an index outside the pool is not defined).
SeedInit ==
  /\ alg = "chol"
  /\ incremental \in BOOLEAN
  /\ numPoints \in 1 .. MaxPoints
  /\ maxSizeArg \in 1 .. MaxSetSize
  /\ batchSize \in 1 .. MaxBatch
  /\ startIndex \in (-2) .. numPoints
  /\ runNo = 0
  /\ prev = [indices |-> << >>, num_active |-> 0]
  /\ scoreLog = << >>
  /\ RunStart
  /\ AuxIdle

SeedNext == Chol_Setup \/ Chol_Seed \/ Chol_InitLocals

SeedSpec == SeedInit /\ [][SeedNext]_vars

\* -------------------------------------------------- SolveLinearSystemCG
\* No selection run is going on.
SelIdle ==
  /\ alg = "cg"
  /\ incremental = FALSE
  /\ numPoints = 1
  /\ maxSizeArg = 1
  /\ batchSize = 1
  /\ startIndex = -1
  /\ runNo = 0
  /\ prev = [indices |-> << >>, num_active |-> 0]
  /\ scoreLog = << >>
  /\ RunStart

\* while (delta_1 > tolerance && k < maxActive)
SolveCGCond(above, kk, na, ma) == above /\ kk < ma

\* A call of SolveLinearSystemCG with num_active <= max_active.
SolveCGInit ==
  /\ SelIdle
  /\ FactorIdle
  /\ GridIdle
  /\ cg_pc = "entry"
  /\ cg_maxActive \in 1 .. MaxSetSize
  /\ cg_numActive \in 1 .. cg_maxActive
  /\ cg_k = 0
  /\ cg_delta = FALSE
  /\ cg_alpha = 0

\* k = 0; d_alpha zeroed, r = p = target, delta_1 = r.r, which is above
\* tolerance or not.
SolveCG_Start ==
  /\ cg_pc = "entry"
  /\ cg_k' = 0
  /\ cg_alpha' = 0
  /\ cg_delta' \in BOOLEAN
  /\ cg_pc' = "loop"
  /\ UNCHANGED << sel, fvars, gvars, cg_numActive, cg_maxActive >>

\* One pass of the loop body: q = K p, alpha += t p, r -= t q, the new
\* delta_1, the next p, k++.  What the new residual is in floating point
\* is left open.
SolveCG_Iterate ==
  /\ cg_pc = "loop"
  /\ SolveCGCond(cg_delta, cg_k, cg_numActive, cg_maxActive)
  /\ cg_alpha' = cg_alpha + 1
  /\ cg_delta' \in BOOLEAN
  /\ cg_k' = cg_k + 1
  /\ UNCHANGED << sel, fvars, gvars, cg_pc, cg_numActive, cg_maxActive >>

\* The loop condition fails: return true.
SolveCG_Return ==
  /\ cg_pc = "loop"
  /\ ~SolveCGCond(cg_delta, cg_k, cg_numActive, cg_maxActive)
  /\ cg_pc' = "returned"
  /\ UNCHANGED << sel, fvars, gvars, cg_numActive, cg_maxActive, cg_k, cg_delta,
                  cg_alpha >>

SolveCGNext == SolveCG_Start \/ SolveCG_Iterate \/ SolveCG_Return

SolveCGSpec == SolveCGInit /\ [][SolveCGNext]_vars

\* ------------------------------- the two factorizations, on values
\* Capacity max_active of the value model.
MaxFactorSize == 3

\* Largest entry of a kernel vector handed to a prediction.
MaxQuery == 1

\* k(x, x), the kernel of a point with itself, in units of 1/25.
KSelf == 5 * 5

TargetValues == {0, 1}

FIdx == 1 .. MaxFactorSize

\* Exact arithmetic: a number is << numerator, denominator >> in lowest
\* terms with a positive denominator; << 0, 0 >> is not a number.
QNaN == << 0, 0 >>

QInt(x) == << x, 1 >>

Abs(x) == IF x < 0 THEN -x ELSE x

RECURSIVE Gcd(_, _)
Gcd(a, b) == IF b = 0 THEN a ELSE Gcd(b, a % b)

QNorm(n, d) ==
  IF d = 0 THEN QNaN
  ELSE LET g == Gcd(Abs(n), Abs(d))
           sg == IF d < 0 THEN -1 ELSE 1
       IN << (sg * n) \div g, (sg * d) \div g >>

QAdd(x, y) ==
  IF x[2] = 0 \/ y[2] = 0 THEN QNaN
  ELSE QNorm(x[1] * y[2] + y[1] * x[2], x[2] * y[2])

QSub(x, y) ==
  IF x[2] = 0 \/ y[2] = 0 THEN QNaN
  ELSE QNorm(x[1] * y[2] - y[1] * x[2], x[2] * y[2])

QMul(x, y) ==
  IF x[2] = 0 \/ y[2] = 0 THEN QNaN
  ELSE QNorm(x[1] * y[1], x[2] * y[2])

QDiv(x, y) ==
  IF x[2] = 0 \/ y[2] = 0 \/ y[1] = 0 THEN QNaN
  ELSE QNorm(x[1] * y[2], x[2] * y[1])

IsSquare(v) == v >= 0 /\ \E r \in 0 .. v : r * r = v

ISqrt(v) == CHOOSE r \in 0 .. v : r * r = v

\* The square root, for the numbers that have one in exact arithmetic.
QSqrt(x) ==
  IF x[2] = 0 \/ ~IsSquare(x[1]) \/ ~IsSquare(x[2]) THEN QNaN
  ELSE << ISqrt(x[1]), ISqrt(x[2]) >>

\* f[1] + .. + f[m]
RECURSIVE QSumTo(_, _)
QSumTo(f, m) == IF m = 0 THEN QInt(0) ELSE QAdd(QSumTo(f, m - 1), f[m])

RECURSIVE IntSumTo(_, _)
IntSumTo(f, m) == IF m = 0 THEN 0 ELSE IntSumTo(f, m - 1) + f[m]

ZeroVector == [r \in FIdx |-> QInt(0)]

ZeroMatrix == [r \in FIdx |-> [c \in FIdx |-> QInt(0)]]

\* cublasStrsm(LEFT, UPPER, OP_T, NON_UNIT, m, 1, 1.0, L, maxActive, b):
\* b := inverse(transpose(L)) b on the leading m entries, by forward
\* substitution on the upper triangle of L.
RECURSIVE FwdSolve(_, _, _)
FwdSolve(L, b, r) ==
  IF r = 0 THEN b
  ELSE LET x == FwdSolve(L, b, r - 1)
           sm == QSumTo([j \in 1 .. (r - 1) |-> QMul(L[j][r], x[j])], r - 1)
       IN [x EXCEPT ![r] = QDiv(QSub(b[r], sm), L[r][r])]

StrsmT(L, m, b) == FwdSolve(L, b, m)

\* cublasStrsm(LEFT, UPPER, OP_N, NON_UNIT, m, 1, 1.0, L, maxActive, b):
\* b := inverse(L) b on the leading m entries, by back substitution.
RECURSIVE BackSolve(_, _, _, _)
BackSolve(L, m, b, r) ==
  IF r > m THEN b
  ELSE LET x == BackSolve(L, m, b, r + 1)
           sm == QSumTo([j \in 1 .. (m - r) |-> QMul(L[r][r + j], x[r + j])],
                        m - r)
       IN [x EXCEPT ![r] = QDiv(QSub(b[r], sm), L[r][r])]

StrsmN(L, m, b) == BackSolve(L, m, b, 1)

\* culaDeviceSpotrf('U', n, A, maxActive): rows 1 .. r of the upper factor
\* of the leading n x n block of A; every other entry of A stays.
RECURSIVE PotrfRows(_, _, _)
PotrfRows(A, n, r) ==
  IF r = 0 THEN A
  ELSE LET U == PotrfRows(A, n, r - 1)
           dg == QSqrt(QSub(A[r][r],
                   QSumTo([q \in 1 .. (r - 1) |-> QMul(U[q][r], U[q][r])], r - 1)))
       IN [a \in FIdx |-> [c \in FIdx |->
            IF a = r /\ c = r THEN dg
            ELSE IF a = r /\ c > r /\ c <= n
                 THEN QDiv(QSub(A[r][c],
                        QSumTo([q \in 1 .. (r - 1) |-> QMul(U[q][r], U[q][c])],
                               r - 1)), dg)
                 ELSE U[a][c]]]

Spotrf(A, n) == PotrfRows(A, n, n)

\* culaDeviceSpotrs('U', n, 1, L, maxActive, b, maxActive)
Spotrs(L, n, b) == StrsmN(L, n, StrsmT(L, n, b))

\* compute_sqrt_var(g, x, m, sigma, beta, dim), from the design document:
\* x = sqrt(k(new, new) - |g|^2) over the first m entries of g
compute_sqrt_var(g, m) ==
  QSqrt(QSub(QInt(KSelf), QSumTo([j \in 1 .. m |-> QMul(g[j], g[j])], m)))

\* A column taken from the kernel matrix as it is.
ColumnUnsolved(L, Km, n) == [r \in FIdx |-> Km[r][n]]

\* UpdateChol: the first n-1 entries of column n of the kernel matrix,
\* solved against the previous factor.
ColumnOfFactor(L, Km, n) == StrsmT(L, n - 1, [r \in FIdx |-> Km[r][n]])

\* UpdateChol(activeSetBuffers, target, d_L, d_alpha, ..): the factor with
\* its new column and diagonal entry, and alpha from two triangular solves.
UpdateChol(L, Km, t, n) ==
  LET col == ColumnOfFactor(L, Km, n)
      dg == compute_sqrt_var(col, n - 1)
      L1 == [r \in FIdx |-> [c \in FIdx |->
              IF c = n /\ r < n THEN col[r]
              ELSE IF c = n /\ r = n THEN dg ELSE L[r][c]]]
  IN [L |-> L1, alpha |-> StrsmN(L1, n, StrsmT(L1, n, t))]

\* SolveLinearSystemChol(activeSetBuffers, target, d_L, d_alpha, ..): the
\* kernel matrix copied over L and factorized, alpha from the nested solve.
SolveLinearSystemChol(Km, t, n) ==
  LET L1 == Spotrf(Km, n)
  IN [L |-> L1, alpha |-> Spotrs(L1, n, t)]

\* GpPredictCholBatch for one query with kernel vector kq: gamma solved
\* against the factor, mu = alpha . kq, sigma = |gamma|^2.
PredictValue(L, al, n, kq) ==
  LET kv == [r \in FIdx |-> IF r <= n THEN QInt(kq[r]) ELSE QInt(0)]
      gm == StrsmT(L, n, kv)
  IN [mu |-> QSumTo([j \in 1 .. n |-> QMul(al[j], kv[j])], n),
      sigma |-> QSumTo([j \in 1 .. n |-> QMul(gm[j], gm[j])], n)]

\* The kernel values of the points admitted so far are those of the
\* matrix transpose(R) R for an upper triangular R with whole entries whose
\* columns, with entries 0, 3, 4 or 5, have squared length KSelf: a column
\* the next point can bring.
GenEntries == {0, 3, 4, 5}

GenColumns(n) ==
  {r \in [1 .. n -> GenEntries] :
     r[n] > 0 /\ IntSumTo([j \in 1 .. n |-> r[j] * r[j]], n) = KSelf}

\* update_active_set_buffers on values: row and column n of the kernel
\* matrix, the kernel between the new point and each admitted point.
AdmitKernel(Km, R, r, n) ==
  LET kn == [a \in 1 .. n |->
               IntSumTo([q \in 1 .. a |->
                           (IF a = n THEN r[q] ELSE R[q][a]) * r[q]], a)]
  IN [a \in FIdx |-> [c \in FIdx |->
       IF a <= n /\ c = n THEN QInt(kn[a])
       ELSE IF a = n /\ c < n THEN QInt(kn[c]) ELSE Km[a][c]]]

\* After the seed: one active point, the factor set to its scalar
\* self-covariance, alpha not solved yet.
FactorInit ==
  /\ SelIdle
  /\ GridIdle
  /\ cg_pc = "idle" /\ cg_numActive = 0 /\ cg_maxActive = 0
  /\ cg_k = 0 /\ cg_delta = FALSE /\ cg_alpha = 0
  /\ nAct = 1
  /\ gen = [a \in FIdx |-> [c \in FIdx |->
              IF a = 1 /\ c = 1 THEN ISqrt(KSelf) ELSE 0]]
  /\ K = [ZeroMatrix EXCEPT ![1][1] = QInt(KSelf)]
  /\ \E tv \in TargetValues : targets = [ZeroVector EXCEPT ![1] = QInt(tv)]
  /\ L_inc = [ZeroMatrix EXCEPT ![1][1] = compute_sqrt_var(ZeroVector, 0)]
  /\ L_full = L_inc
  /\ alpha_inc = ZeroVector
  /\ alpha_full = ZeroVector
  /\ pred = << >>

\* One admission - the first, or the one after a prediction as in the loop
\* of SelectChol - followed by UpdateChol on one factor and by
\* SolveLinearSystemChol on the other.
Factor_Admit ==
  /\ nAct < MaxFactorSize
  /\ nAct = 1 \/ pred # << >>
  /\ nAct' = nAct + 1
  /\ \E r \in GenColumns(nAct + 1) :
       /\ gen' = [a \in FIdx |-> [c \in FIdx |->
                    IF c = nAct + 1 /\ a <= nAct + 1 THEN r[a] ELSE gen[a][c]]]
       /\ K' = AdmitKernel(K, gen, r, nAct + 1)
  /\ \E tv \in TargetValues : targets' = [targets EXCEPT ![nAct + 1] = QInt(tv)]
  /\ LET u == UpdateChol(L_inc, K', targets', nAct')
     IN L_inc' = u.L /\ alpha_inc' = u.alpha
  /\ LET f == SolveLinearSystemChol(K', targets', nAct')
     IN L_full' = f.L /\ alpha_full' = f.alpha
  /\ pred' = << >>
  /\ UNCHANGED << sel, cgvars, gvars >>

\* The prediction that follows an admission, from each of the two states.
Factor_Predict ==
  /\ nAct >= 2
  /\ pred = << >>
  /\ \E kq \in [1 .. nAct -> 0 .. MaxQuery] :
       pred' = [kq |-> kq,
                inc |-> PredictValue(L_inc, alpha_inc, nAct, kq),
                full |-> PredictValue(L_full, alpha_full, nAct, kq)]
  /\ UNCHANGED << sel, cgvars, gvars, gen, K, targets, nAct, L_inc, L_full,
                  alpha_inc, alpha_full >>

FactorNext == Factor_Admit \/ Factor_Predict

FactorSpec == FactorInit /\ [][FactorNext]_vars

\* ------------------------------------------------------- SelectFromGrid
\* Largest grid, in points, and largest setSize of a SelectFromGrid call.
MaxGridPoints == 3

MaxGridSetSize == 2

\* float* inputs, targets, activeInputs, activeTargets = new float[..]
HostBuffers == {"inputs", "targets", "activeInputs", "activeTargets"}

\* while (!csvFile.eof() && k < depth)
ReadCsvCond(eof, kk, d) == ~eof /\ kk < d

\* WriteCsv("inputs.csv" / "targets.csv" / "alpha.csv" / "predictions.csv")
\* at the end of SelectChol has run.
OutputWritten == alg = "chol" /\ pc \in {"release", "done"}

\* A call SelectFromGrid(csvFilename, setSize, sigma, beta, width, height,
\* depth, batchSize, tolerance, accuracy, storeDepth, startIndex) on a file
\* that opens or not and holds fewer, as many or more lines than the grid
\* has rows.  numPoints, maxSizeArg, batchSize and startIndex hold what the
\* call will hand to SelectChol: numPts = width*height*depth, setSize,
\* batchSize, startIndex.
GridInit ==
  /\ FactorIdle
  /\ cg_pc = "idle" /\ cg_numActive = 0 /\ cg_maxActive = 0
  /\ cg_k = 0 /\ cg_delta = FALSE /\ cg_alpha = 0
  /\ grid_pc = "entry"
  /\ width \in 1 .. MaxGridPoints
  /\ height \in 1 .. MaxGridPoints
  /\ depth \in 1 .. MaxGridPoints
  /\ width * height * depth <= MaxGridPoints
  /\ csvOpens \in BOOLEAN
  /\ csvLines \in (IF csvOpens THEN 0 .. (height * depth + 1) ELSE {0})
  /\ csvNewline \in (IF csvLines > 0 THEN BOOLEAN ELSE {FALSE})
  /\ rd_j = 0 /\ rd_k = 0 /\ rd_got = 0 /\ rd_eof = FALSE
  /\ heap = {}
  /\ grid_ret = "none"
  /\ selectCalls = 0
  /\ alg = "none"
  /\ incremental = FALSE
  /\ numPoints = width * height * depth
  /\ maxSizeArg \in 1 .. MaxGridSetSize
  /\ batchSize \in 1 .. MaxBatch
  /\ startIndex \in {-1, 0, numPoints - 1}
  /\ runNo = 0
  /\ prev = [indices |-> << >>, num_active |-> 0]
  /\ scoreLog = << >>
  /\ RunStart

\* int numPts = width*height*depth; the four new float[..].
Grid_Allocate ==
  /\ grid_pc = "entry"
  /\ heap' = HostBuffers
  /\ grid_pc' = "open"
  /\ UNCHANGED << sel, fvars, cgvars, width, height, depth, csvOpens,
                  csvLines, csvNewline, rd_j, rd_k, rd_got, rd_eof,
                  grid_ret, selectCalls >>

\* ReadCsv: std::ifstream csvFile(..); if (!csvFile.is_open()) return false;
\* int j = 0; int k = 0;
ReadCsv_Open ==
  /\ grid_pc = "open"
  /\ grid_pc' = IF csvOpens THEN "getline" ELSE "read_failed"
  /\ rd_j' = 0 /\ rd_k' = 0 /\ rd_got' = 0 /\ rd_eof' = FALSE
  /\ UNCHANGED << sel, fvars, cgvars, width, height, depth, csvOpens,
                  csvLines, csvNewline, heap, grid_ret, selectCalls >>

\* ReadCsv: one body of the loop.  getline takes the next line, and sets
\* eof when it runs into the end of the file: on the last line if that
\* has no newline, else on the read after it; the width values of row
\* (j, k) are stored and j, k step on.
ReadCsv_Line ==
  /\ grid_pc = "getline"
  /\ ReadCsvCond(rd_eof, rd_k, depth)
  /\ IF rd_got < csvLines
     THEN /\ rd_got' = rd_got + 1
          /\ rd_eof' = (rd_got' = csvLines /\ ~csvNewline)
     ELSE /\ rd_got' = rd_got
          /\ rd_eof' = TRUE
  /\ IF rd_j + 1 >= height
     THEN rd_j' = 0 /\ rd_k' = rd_k + 1
     ELSE rd_j' = rd_j + 1 /\ rd_k' = rd_k
  /\ UNCHANGED << sel, fvars, cgvars, grid_pc, width, height, depth,
                  csvOpens, csvLines, csvNewline, heap, grid_ret,
                  selectCalls >>

\* ReadCsv: csvFile.close(); return true; its locals end here.
ReadCsv_Close ==
  /\ grid_pc = "getline"
  /\ ~ReadCsvCond(rd_eof, rd_k, depth)
  /\ rd_j' = 0 /\ rd_k' = 0 /\ rd_got' = 0 /\ rd_eof' = FALSE
  /\ grid_pc' = "call"
  /\ UNCHANGED << sel, fvars, cgvars, width, height, depth, csvOpens,
                  csvLines, csvNewline, heap, grid_ret, selectCalls >>

\* if (!ReadCsv(..)) { return false; }
Grid_ReturnFalse ==
  /\ grid_pc = "read_failed"
  /\ grid_ret' = "false"
  /\ grid_pc' = "returned"
  /\ UNCHANGED << sel, fvars, cgvars, width, height, depth, csvOpens,
                  csvLines, csvNewline, rd_j, rd_k, rd_got, rd_eof, heap,
                  selectCalls >>

\* SelectChol(setSize, inputs, targets, LEVEL_SET, hypers, inputDim,
\* targetDim, numPts, tolerance, accuracy, batchSize, activeInputs,
\* activeTargets, startIndex, true): the run starts.
Grid_SelectChol ==
  /\ grid_pc = "call"
  /\ alg' = "chol"
  /\ incremental' = TRUE
  /\ selectCalls' = selectCalls + 1
  /\ grid_pc' = "select"
  /\ UNCHANGED << numPoints, maxSizeArg, maxSize, batchSize, startIndex, pc,
                  k, i, firstIndex, nextIndex, numLeft, beta, indices,
                  num_active, max_active, active_inputs, d_next_index,
                  pool, hflags, d_alpha, d_L, d_mu, d_sigma, iters, pair,
                  batches, fvars, cgvars, width, height, depth, csvOpens,
                  csvLines, csvNewline, rd_j, rd_k, rd_got, rd_eof, heap,
                  grid_ret >>

\* The four delete [] after SelectChol has returned.
Grid_Release ==
  /\ grid_pc = "select"
  /\ alg = "chol" /\ pc = "done"
  /\ heap' = heap \ HostBuffers
  /\ grid_pc' = "released"
  /\ UNCHANGED << sel, fvars, cgvars, width, height, depth, csvOpens,
                  csvLines, csvNewline, rd_j, rd_k, rd_got, rd_eof,
                  grid_ret, selectCalls >>

\* return true;
Grid_ReturnTrue ==
  /\ grid_pc = "released"
  /\ grid_ret' = "true"
  /\ grid_pc' = "returned"
  /\ UNCHANGED << sel, fvars, cgvars, width, height, depth, csvOpens,
                  csvLines, csvNewline, rd_j, rd_k, rd_got, rd_eof, heap,
                  selectCalls >>

GridNext ==
  \/ Grid_Allocate
  \/ ReadCsv_Open
  \/ ReadCsv_Line
  \/ ReadCsv_Close
  \/ Grid_ReturnFalse
  \/ Grid_SelectChol
  \/ CholNext
  \/ Grid_Release
  \/ Grid_ReturnTrue

GridSpec == GridInit /\ [][GridNext]_vars

\* ----------------------------------------------------------------- C1
\* A bound on the steps a run still has to take: the position in the
\* termination phase, in the loop body, and the loop iterations left.
BodyWeight == numPoints + 12

LoopBase == numPoints + 4

Top == LoopBase + BodyWeight * Min(maxSizeArg, numPoints) + numPoints + 9

BodyRank ==
  CASE pc = "loop_test" -> numPoints + 8
    [] pc \in {"beta", "snapshot"} /\ (alg = "chol" \/ pc = "snapshot") -> numPoints + 7
    [] pc = "predict" -> 6 + (numPoints - i)
    [] pc = "numleft_test" -> 5
    [] pc = "score" /\ alg = "chol" -> 5
    [] pc = "score" /\ alg = "cg" -> 4
    [] pc = "admit_test" -> 4
    [] pc = "update" -> 3
    [] pc = "solve" /\ alg = "chol" -> 2
    [] pc = "beta" /\ alg = "cg" -> 2
    [] pc = "solve" /\ alg = "cg" -> 1

Measure ==
  CASE pc = "done" -> 0
    [] pc = "release" -> 1
    [] pc = "report" -> 2
    [] pc = "final_predict" -> 3 + (numPoints - i)
    [] pc = "start" -> Top + 4
    [] pc = "seed" -> Top + 3
    [] pc = "solve0" -> Top + 2
    [] pc = "locals" -> Top + 1
    [] OTHER -> LoopBase + BodyWeight * (maxSize - k) + BodyRank

\* C1: with maxSize first clamped to N, the selection loop of SelectChol and
\* of SelectCG enters its body at most maxSize - 1 times, and the run cannot
\* go on for ever nor stop before the end of the termination phase (final
\* prediction, error report, output, release): every step lowers a measure
\* that stays at or above 0, and a step is possible until the run is done.
C1_BoundedLoopTerminates ==
  /\ [][Measure' < Measure]_vars
  /\ [](/\ Measure >= 0
        /\ iters <= Min(maxSizeArg, numPoints) - 1
        /\ (pc = "done" \/ ENABLED Next))

C1_Witness ==
  /\ pc = "done"
  /\ iters = Min(maxSizeArg, numPoints) - 1
  /\ iters >= 2

C3_ChangesOnlyByAdmission ==
  [][/\ num_active' >= num_active
     /\ pc \in {"seed", "update"} => num_active' = num_active + 1
     /\ num_active' # num_active =>
          \/ pc = "seed" /\ firstIndex' \in Pts
          \/ pc = "update" /\ d_next_index \in Pts]_vars

\* ----------------------------------------------------------------- C4
\* C4: the indices admitted in one run - the seed and those admitted by
\* the loop - are pairwise distinct.
C4_NoIndexAdmittedTwice ==
  \A a, b \in 1 .. Len(active_inputs) :
    a # b => active_inputs[a] # active_inputs[b]

C4_Witness ==
  /\ Len(active_inputs) >= 3
  /\ \A a \in 1 .. Len(active_inputs) : active_inputs[a] \in Pts
  /\ startIndex # -1

\* ----------------------------------------------------------------- C5
\* C5: no pool point has two of the flags active, upper, lower, and every
\* admitted point is active (so it is never upper or lower afterwards).
C5_FlagsExclusive ==
  /\ active \cap upper = {}
  /\ active \cap lower = {}
  /\ upper \cap lower = {}
  /\ \A a \in 1 .. Len(active_inputs) :
       active_inputs[a] \in Pts => active_inputs[a] \in active

C5_Witness ==
  /\ Cardinality(active) >= 2
  /\ upper # {}
  /\ lower # {}
  /\ Len(active_inputs) >= 2

\* ----------------------------------------------------------------- C6
\* C6: in SelectChol every prediction pass, in the loop and after it, runs
\* with an alpha that was solved for the current active set.
C6_PredictsWithSolvedAlpha ==
  (alg = "chol" /\ pc \in {"predict", "final_predict"})
    => d_alpha = Solved(num_active)

\* ----------------------------------------------------------------- C7
\* C7: every prediction call of a run, GpPredictCholBatch or GpPredictCG,
\* in the loop or after it, is made with num_active >= 1.
C7_SeedBeforePrediction ==
  /\ pc \in {"predict", "final_predict"} => num_active >= 1
  /\ \A j \in DOMAIN d_mu : d_mu[j] # Unset => d_mu[j].n >= 1

C7_Witness ==
  /\ pc = "predict"
  /\ iters = 1
  /\ num_active = 1
  /\ i > 0

\* ----------------------------------------------------------------- C8
\* C8 as stated: in SelectChol, after scoring returned -1 in an iteration
\* that is not the last one the bound allows, the loop goes on with the
\* next iteration.
C8_SentinelKeepsLooping ==
  [][(alg = "chol" /\ pc = "loop_test" /\ nextIndex = -1 /\ k < maxSize)
       => pc' = "beta"]_vars

\* C8 as amended: in SelectChol, once scoring has returned -1 the iteration
\* admits nothing and the loop ends at its next test, whatever k is: no
\* further loop body, in-loop prediction, scoring, admission or solve.
C8_SentinelEndsLoop ==
  [][(alg = "chol" /\ nextIndex = -1) =>
       /\ nextIndex' = -1
       /\ iters' = iters
       /\ num_active' = num_active
       /\ d_alpha' = d_alpha
       /\ pc' \in {"loop_test", "final_predict", "report", "release", "done"}]_vars

C8_Witness ==
  /\ alg = "chol"
  /\ pc = "final_predict"
  /\ nextIndex = -1
  /\ k < maxSize

\* ----------------------------------------------------------------- C9
\* SelectCG has counted the undetermined points and found none, or is past
\* its loop with none left.
CGExhausted ==
  /\ alg = "cg"
  /\ numLeft = 0
  /\ pc \in {"numleft_test", "loop_test", "final_predict", "report",
             "release", "done"}

C10_SameTrajectory ==
  (runNo = 2 /\ pc = "done")
    => (active_inputs = prev.indices /\ num_active = prev.num_active)

\* ---------------------------------------------------------------- C12
\* The part of a routine after its selection loop.
AfterLoop == pc \in {"final_predict", "report", "release", "done"}

\* How many prediction calls of the current pass wrote index j.
WriteCount(j) ==
  Cardinality({e \in 1 .. Len(batches) :
                 batches[e][1] <= j /\ j < batches[e][1] + batches[e][2]})

\* C12: in SelectChol and SelectCG the loop is over when the final pass
\* begins, the pass has predicted every index of [0, N) exactly once, from
\* the final active set, when errors are evaluated and output written, and
\* from the beginning of the pass on there is no admission, no update of the
\* factor and no solve of alpha.
C12_OneFinalPass ==
  /\ [][AfterLoop =>
          /\ AfterLoop'
          /\ num_active' = num_active
          /\ active_inputs' = active_inputs
          /\ d_L' = d_L
          /\ d_alpha' = d_alpha]_vars
  /\ [](AfterLoop =>
          IF alg = "chol" THEN ~CholLoopCond(k, maxSize, nextIndex)
          ELSE ~CGLoopCond(k, maxSize, numLeft))
  /\ [](pc \in {"report", "release", "done"} =>
          \A j \in Pts : /\ WriteCount(j) = 1
                         /\ d_mu[j] = MuValue(d_alpha, num_active)
                         /\ d_sigma[j].n = num_active)

C12_Witness ==
  /\ pc = "report"
  /\ iters >= 2
  /\ Len(batches) >= 2

\* ---------------------------------------------------------------- C13
\* C13: in SelectChol and in SelectCG, when scoring is called in iteration
\* k, beta holds the value of the closed form for that k.
C13_ScoringUsesBetaOfIteration ==
  pc = "score" => beta = BetaFactor(k)

\* ---------------------------------------------------------------- C14
\* C14: in a prediction pass of SelectChol the e-th batch starts at
\* (e-1)*batchSize, has between 1 and batchSize points, fewer than batchSize
\* only when it ends the pool, and lies in [0, N); no index is written
\* twice, at the end of the pass every index has been written once, and mu
\* and sigma have no entry outside [0, N).
C14_BatchesPartitionPool ==
  /\ alg = "chol" =>
       /\ \A e \in 1 .. Len(batches) :
            /\ batches[e][1] = (e - 1) * batchSize
            /\ batches[e][2] >= 1 /\ batches[e][2] <= batchSize
            /\ batches[e][2] < batchSize =>
                 batches[e][1] + batches[e][2] = numPoints
            /\ batches[e][1] >= 0
            /\ batches[e][1] + batches[e][2] <= numPoints
       /\ \A j \in Pts : WriteCount(j) <= 1
       /\ pc \in {"score", "report"} => \A j \in Pts : WriteCount(j) = 1
  /\ DOMAIN d_mu \subseteq Pts
  /\ DOMAIN d_sigma \subseteq Pts

C14_Witness ==
  /\ alg = "chol"
  /\ pc = "score"
  /\ batchSize = 2
  /\ numPoints = 3
  /\ Len(batches) = 2

\* ---------------------------------------------------------------- C15
\* The indices a prediction step queries.
Queried ==
  IF alg = "chol" THEN i .. (i + BatchLen(batchSize, numPoints, i) - 1)
  ELSE IF pc = "final_predict" \/ HostUndetermined(h_active, h_upper, h_lower, i)
       THEN {i} ELSE {}

\* What a step may change: mu and sigma at the indices queried.
PredictionFrame ==
  /\ num_active' = num_active
  /\ max_active' = max_active
  /\ active_inputs' = active_inputs
  /\ d_L' = d_L
  /\ d_alpha' = d_alpha
  /\ pool' = pool
  /\ DOMAIN d_mu' = DOMAIN d_mu
  /\ \A j \in Pts \ Queried :
       d_mu'[j] = d_mu[j] /\ d_sigma'[j] = d_sigma[j]

\* C15: a prediction call, GpPredictCholBatch or GpPredictCG, changes
\* neither num_active, the rows of the active set, the factor L, alpha nor
\* the flags active, upper and lower; of mu and sigma it writes only the
\* entries of the indices queried.
C15_PredictionOnlyWritesMuSigma ==
  [][(pc \in {"predict", "final_predict"}) => PredictionFrame]_vars

C15_Witness ==
  /\ alg = "cg"
  /\ pc = "predict"
  /\ Len(batches) >= 1
  /\ num_active >= 2
  /\ d_alpha = Solved(num_active)

\* ---------------------------------------------------------------- C16
\* The indices predicted so far in the current pass.
Predicted == {j \in Pts : WriteCount(j) >= 1}

\* C16 as stated: a pass inside the loop of SelectChol or SelectCG predicts
\* only points that are neither active nor classified upper or lower.
C16_InLoopPredictsUndeterminedOnly ==
  pc \in {"predict", "numleft_test", "score"} => Predicted \subseteq Undetermined

\* C16 as amended: a pass inside the loop of SelectCG predicts exactly the
\* points that are neither active nor classified, and counts them in
\* numLeft; a pass inside the loop of SelectChol predicts every index of
\* [0, N), whatever its flags.
C16_OnlySelectCGSkipsClassified ==
  /\ (alg = "cg" /\ pc \in {"predict", "numleft_test", "score"}) =>
       /\ Predicted \subseteq Undetermined
       /\ numLeft = Cardinality(Predicted)
  /\ (alg = "cg" /\ pc \in {"numleft_test", "score"}) => Predicted = Undetermined
  /\ (alg = "chol" /\ pc = "score") => Predicted = Pts

C16_Witness ==
  /\ alg = "chol"
  /\ pc = "score"
  /\ iters >= 2
  /\ upper # {}
  /\ Predicted \cap upper # {}

\* ---------------------------------------------------------------- C17
\* C17: in SelectChol the vector indices never holds -1, and between the
\* iterations of the loop and after it, it is the sequence of the admitted
\* points, of length num_active.
C17_TrajectoryIsAdmissions ==
  alg = "chol" =>
    /\ \A e \in 1 .. Len(indices) : indices[e] # -1
    /\ pc \notin {"locals", "admit_test", "update"} =>
         (indices = active_inputs /\ Len(indices) = num_active)

\* ---------------------------------------------------------------- C20
\* C20: the argument of the logarithm of beta never decreases from one
\* value of beta to the next, the value before the loop included.
C20_BetaNeverDecreases ==
  [][beta >= 1 => BetaArg(numPoints, beta') >= BetaArg(numPoints, beta)]_vars

C20_Witness ==
  /\ pc = "score"
  /\ beta >= 3

\* ---------------------------------------------------------------- C18
\* C18: a call of SolveLinearSystemCG starts from alpha = 0, adds one update
\* per iteration, goes on only while the residual is above tolerance, makes
\* at most num_active iterations, and returns.
C18_StopsWithinNumActive ==
  /\ cg_pc \in {"loop", "returned"} => cg_alpha = cg_k
  /\ cg_k <= cg_numActive
  /\ cg_pc = "returned" => (~cg_delta \/ cg_k >= cg_numActive)

\* ---------------------------------------------------------------- C19
\* C19: when SelectChol has seeded and not yet entered its loop, exactly
\* one point is active and admitted, it is startIndex unless startIndex is
\* -1, and it is an index of the pool.
C19_SeedIsValidPoint ==
  pc \in {"locals", "loop_test"} =>
    /\ num_active = 1
    /\ active = {firstIndex}
    /\ active_inputs = << firstIndex >>
    /\ startIndex # -1 => firstIndex = startIndex
    /\ firstIndex \in Pts

NoSentinelReturned == \A j \in 1 .. Len(indices) : indices[j] # -1

\* C21: a SelectChol run in which no scoring call returned the sentinel
\* ends with num_active = min(maxSize, N): the loop body ran maxSize - 1
\* times, each time admitting one point on top of the seed, and when
\* maxSize = N every point is active.
C21_FullRunFillsActiveSet ==
  (alg = "chol" /\ AfterLoop /\ NoSentinelReturned) =>
    /\ num_active = Min(maxSizeArg, numPoints)
    /\ iters = Min(maxSizeArg, numPoints) - 1
    /\ active_inputs = indices
    /\ Cardinality(active) = num_active
    /\ maxSizeArg >= numPoints => active = Pts

C21_Witness ==
  /\ alg = "chol" /\ pc = "done" /\ NoSentinelReturned
  /\ numPoints = 4 /\ maxSizeArg = 4
  /\ num_active = 4 /\ active = Pts /\ iters = 3

\* ---------------------------------------------------------------- C22
\* The rest of a loop body whose scoring call left the sentinel in
\* d_next_index: from the return of find_best_active_set_candidate to k++.
SentinelIteration ==
  /\ d_next_index = -1
  /\ \/ alg = "chol" /\ pc \in {"admit_test", "update", "solve"}
     \/ alg = "cg" /\ pc \in {"update", "beta", "solve"}

\* C22: in SelectChol and in SelectCG, an iteration whose scoring call
\* yields the sentinel calls neither update_active_set_buffers nor the
\* solver, and leaves num_active, the active points, L and alpha as they
\* were.
C22_SentinelLeavesStateUnchanged ==
  [][SentinelIteration =>
       /\ pc \notin {"update", "solve"}
       /\ num_active' = num_active
       /\ active_inputs' = active_inputs
       /\ active' = active
       /\ d_L' = d_L
       /\ d_alpha' = d_alpha]_vars

\* ---------------------------------------------------------------- C23
\* The call UpdateChol(&activeSetBuffers, ..) of the loop of SelectChol.
UpdateCholCalled == alg = "chol" /\ pc = "solve" /\ incremental

\* C23: UpdateChol is only called with n = num_active >= 2, right after an
\* admission of the loop, and it writes column n of L (counted from 1) and
\* no other: the columns of the leading block, which earlier admissions
\* built, and the columns not used yet keep their contents.
C23_UpdateCholWritesNewColumnOnly ==
  [][UpdateCholCalled =>
       /\ num_active >= 2
       /\ num_active = Len(active_inputs)
       /\ active_inputs[num_active] = nextIndex
       /\ d_L'[num_active] # d_L[num_active]
       /\ \A c \in DOMAIN d_L : c # num_active => d_L'[c] = d_L[c]]_vars

C23_Witness ==
  /\ alg = "chol" /\ incremental /\ pc = "loop_test"
  /\ num_active = 3
  /\ d_L[1] = "init" /\ d_L[2] = "rank1" /\ d_L[3] = "rank1"
  /\ \A c \in DOMAIN d_L : c > 3 => d_L[c] = "zero"

\* ---------------------------------------------------------------- C24
\* C24: SelectFromGrid returns false exactly when the CSV file cannot be
\* opened, and then no selection run was started and no output file
\* written; when the file opens it has run SelectChol once, in incremental
\* mode and to its end, and returns true; and whichever way it returns,
\* none of the four host buffers it allocated is left undeleted.
C24_ReturnsAndReleases ==
  grid_pc = "returned" =>
    /\ grid_ret = "false" <=> ~csvOpens
    /\ grid_ret = "true" <=> csvOpens
    /\ grid_ret = "false" => (selectCalls = 0 /\ ~OutputWritten)
    /\ grid_ret = "true" =>
         (selectCalls = 1 /\ incremental /\ alg = "chol" /\ pc = "done")
    /\ heap = {}

====
